---- MODULE Spec2Model ----
(***************************************************************************)
(* FittingPLDF.ipynb: the shape function g, its normalisation Cn, the      *)
(* prior / likelihood / posterior, and the driver cell that loops over     *)
(* mass bins and reliability-weighted draws.                               *)
(*                                                                         *)
(* Number conventions.  Parameters, periods and radii are integers in      *)
(* hundredths (F0 = 100 is 1.0, P = 1414 is 14.14 days, R = 350 is 3.5).   *)
(* Values of np.log, np.log10, np.tanh, the power law and the split        *)
(* fraction are fixed-point in thousandths, rounded down; g is in          *)
(* hundredths, dP in days, dR in tenths, so that g*dP*dR is an exact       *)
(* integer.  Stellar masses are in 1/256 solar masses.                     *)
(* Reliabilities and uniform random numbers are in hundredths.             *)
(***************************************************************************)
EXTENDS Integers, Sequences, FiniteSets, TLC

VARIABLES
    Rsplit,             \* module global Rsplit (hundredths of an Earth radius)
    theta,              \* the parameter vector the model functions are called on
    out,                \* what the last direct call of a model function returned
    pc,                 \* where the driver cell is
    this_row,           \* mass bin being fitted (1-based index into t)
    draw,               \* draw of the bin being fitted (0-based, as range(num_draws))
    rngPos,             \* np.random global generator: numbers consumed since seed(42)
    stream,             \* the numbers the generator yields after seed(42), by position
    catalog,            \* reliabilities of the bin's rows in the P,R range (before line 553)
    sample_reliability, \* reliabilities after the zero-reliability exclusion
    rowOf,              \* index in the filtered arrays -> index in catalog
    use_array,          \* use_array[i][d+1]: row i is used in draw d
    unused,             \* the unused list (indices into the filtered arrays)
    tracker,            \* the tracker list
    timestr,            \* time.strftime(...) of the bin
    clock,              \* wall clock, in seconds
    chainFiles,         \* chain file name -> number of steps stored in it
    otherFiles,         \* tracker / unused_flag file name -> content
    runs,               \* <<bin, draw>> -> sample given to each sampler invocation
    pools,              \* number of live multiprocessing pools
    stepsDone,          \* steps of the running chain done so far
    lastEval,           \* the last log_posterior evaluation made by the sampler
    err,                \* the exception that ended the cell and the call that raised
                        \* it, or "none"
    resampled,          \* bin -> the generator position its resampling read from,
                        \* the reliabilities, the mask, the reliabilities printed
    intGrid,            \* module globals intP, intR, dP, dR (the integration grid)
    OneRunCompletenessGrid, \* module global: the bin's completeness on the grid
    pos,                \* walker start positions of the bin
    walkers             \* the sampler's walkers: where its chain started, where they are

evalVars   == <<Rsplit, theta, out>>
driverVars == <<pc, this_row, draw, rngPos, stream, catalog, sample_reliability,
                rowOf, use_array, unused, tracker, timestr, clock, chainFiles,
                otherFiles, runs, pools, stepsDone, lastEval, err, resampled,
                intGrid, OneRunCompletenessGrid, pos, walkers>>
vars       == <<Rsplit, theta, out, pc, this_row, draw, rngPos, stream, catalog,
                sample_reliability, rowOf, use_array, unused, tracker, timestr,
                clock, chainFiles, otherFiles, runs, pools, stepsDone, lastEval,
                err, resampled, intGrid, OneRunCompletenessGrid, pos, walkers>>

----------------------------------------------------------------------------
(* Arithmetic helpers *)

Range(f) == {f[i] : i \in DOMAIN f}

RECURSIVE IPow(_, _)
IPow(b, k) == IF k = 0 THEN 1 ELSE b * IPow(b, k - 1)

RECURSIVE Gcd(_, _)
Gcd(a, b) == IF b = 0 THEN a ELSE Gcd(b, a % b)

Abs(a) == IF a < 0 THEN -a ELSE a

\* floor(n / d) for any sign of d # 0
FDiv(n, d) == IF d > 0 THEN n \div d ELSE (-n) \div (-d)

\* Rationals n/d with d >= 0; d = 0 stands for the inf / nan of a float division by 0.
Rat(n, d) ==
    IF d = 0 THEN [n |-> n, d |-> 0]
    ELSE LET k == Gcd(Abs(n), Abs(d))
             sg == IF d < 0 THEN -1 ELSE 1
         IN  [n |-> sg * (n \div k), d |-> sg * (d \div k)]

RMul(p, q) ==
    IF p.d = 0 \/ q.d = 0 THEN [n |-> 1, d |-> 0]
    ELSE LET k1 == Gcd(Abs(p.n), q.d)
             k2 == Gcd(Abs(q.n), p.d)
             a1 == IF k1 = 0 THEN 1 ELSE k1
             a2 == IF k2 = 0 THEN 1 ELSE k2
         IN  Rat((p.n \div a1) * (q.n \div a2), (p.d \div a2) * (q.d \div a1))

RAdd(p, q) ==
    IF p.d = 0 \/ q.d = 0 THEN [n |-> 1, d |-> 0]
    ELSE LET l == (p.d \div Gcd(p.d, q.d)) * q.d
         IN  Rat(p.n * (l \div p.d) + q.n * (l \div q.d), l)

RECURSIVE RSum(_, _)
RSum(f, S) ==
    IF S = {} THEN Rat(0, 1)
    ELSE LET c == CHOOSE e \in S : TRUE IN RAdd(f[c], RSum(f, S \ {c}))

RECURSIVE ISum(_, _)
ISum(f, S) ==
    IF S = {} THEN 0
    ELSE LET c == CHOOSE e \in S : TRUE IN f[c] + ISum(f, S \ {c})

\* floor(log2(n/d)) for n >= d > 0
RECURSIVE Log2Int(_, _)
Log2Int(n, d) == IF n < 2 * d THEN 0 ELSE 1 + Log2Int(n, 2 * d)

\* the fractional binary digits of log2(m / 10000), 10000 <= m < 20000, from the
\* digit of weight w down to the digit of weight 1
RECURSIVE Log2Frac(_, _)
Log2Frac(m, w) ==
    IF w = 0 THEN 0
    ELSE IF m * m >= 200000000 THEN w + Log2Frac((m * m) \div 20000, w \div 2)
    ELSE Log2Frac((m * m) \div 10000, w \div 2)

\* 1024 * log2(v / 100), v >= 100 in hundredths
Log2Fix(v) ==
    LET e == Log2Int(v, 100)
    IN  e * 1024 + Log2Frac((v * 100) \div IPow(2, e), 512)

\* np.log(v / 100) in thousandths
NpLog(v) == (Log2Fix(v) * 693) \div 1024

\* np.log10(v / 100) in thousandths
NpLog10(v) == (Log2Fix(v) * 301) \div 1024

\* np.tanh tabulated in thousandths at multiples of 0.25, saturating at 1.0
TanhTable == <<0, 245, 462, 635, 762, 848, 905, 941, 964, 978, 987, 992,
               995, 997, 998, 999, 1000>>

NpTanh(z) ==
    LET i == Abs(z) \div 250
        v == IF i + 1 > Len(TanhTable) THEN 1000 ELSE TanhTable[i + 1]
    IN  IF z < 0 THEN -v ELSE v

\* (n/d) ** k in thousandths for an integer exponent k, n, d > 0
RECURSIVE NpPower(_, _, _)
NpPower(n, d, k) ==
    IF k = 0 THEN 1000
    ELSE IF k > 0 THEN (NpPower(n, d, k - 1) * n) \div d
    ELSE (NpPower(n, d, k + 1) * d) \div n

\* floor(100 * (n/d) ** (1/k)): the k-th root in hundredths
RootH(n, d, k) ==
    CHOOSE r \in 1..((100 * n) \div d) :
        /\ IPow(r, k) * d <= n * IPow(100, k)
        /\ IPow(r + 1, k) * d > n * IPow(100, k)

\* the exact fourth root of a perfect fourth power, else its floor
Root4(m) == CHOOSE r \in 0..m : IPow(r, 4) <= m /\ IPow(r + 1, 4) > m

----------------------------------------------------------------------------
(* GetRange, log_grid *)

Pmin == 2
Pmax == 100
Rmin == 100
Rmax == 350

\* grid resolution (log_grid's nx, ny; 100 in the notebook)
nx == 2
ny == 2

\* np.geomspace(lo, hi, n): endpoints exact, constant ratio between neighbours
Geomspace(lo, hi, n) ==
    [i \in 1..n |->
        IF i = 1 THEN lo
        ELSE IF i = n THEN hi
        ELSE (lo * IPow(RootH(hi, lo, n - 1), i - 1)) \div IPow(100, i - 1)]

gridX == Geomspace(100 * Pmin, 100 * Pmax, nx)
gridY == Geomspace(Rmin, Rmax, ny)

\* np.exp((np.log(x[nx-1]) - np.log(x[0])) / (nx-1)): the final geometric ratio
logspace_x == RootH(gridX[nx], gridX[1], nx - 1)
logspace_y == RootH(gridY[ny], gridY[1], ny - 1)

\* np.meshgrid(x, y): one cell per (column i of x, row j of y)
Cells == (1..nx) \X (1..ny)
intP == [c \in Cells |-> gridX[c[1]]]
intR == [c \in Cells |-> gridY[c[2]]]
\* dP,dR = P*(logspace_x-1), R*(logspace_y-1): dP in days, dR in tenths
dP == [c \in Cells |-> (intP[c] * (logspace_x - 100)) \div 10000]
dR == [c \in Cells |-> (intR[c] * (logspace_y - 100)) \div 1000]

\* log_grid(): the P, R, dP, dR it returns
log_grid == [P |-> intP, R |-> intR, dP |-> dP, dR |-> dR]

----------------------------------------------------------------------------
(* Mass bins, ScaledRadius *)

\* rows Lo, Hi of the mass-bin table, in 1/256 solar masses
t == << [Lo |-> 64, Hi |-> 98], [Lo |-> 98, Hi |-> 1152] >>

\* np.mean([row['Lo'], row['Hi']])
Mavg(row) == (row.Lo + row.Hi) \div 2

\* R * M ** (1/4), R in hundredths, M in 1/256 solar masses
ScaledRadius(R, M) == (R * Root4(M)) \div Root4(256)

\* Rsplit = ScaledRadius() at the end of the ScaledRadius cell: R = 2, M = 1
RsplitDefault == ScaledRadius(200, 256)

----------------------------------------------------------------------------
(* Parameter vectors *)

Theta(F0, P_break, beta_1, beta_2, P_central, chi_1, chi_2, s) ==
    [F0 |-> F0, P_break |-> P_break, beta_1 |-> beta_1, beta_2 |-> beta_2,
     P_central |-> P_central, chi_1 |-> chi_1, chi_2 |-> chi_2, s |-> s]

\* theta = (1, 10, 1, -1, 20, 0.8, 0.2, 2)
InteriorPoint == Theta(100, 1000, 100, -100, 2000, 80, 20, 200)

\* the parameter vectors log_prior is called on: every bound met, sat on, and broken
PriorProbe ==
    [F0 : {5, 100, 500, 1000}, P_break : {200, 1000, 2000},
     beta_1 : {-200, 100, 500}, beta_2 : {-200, -100, 500},
     P_central : {400, 600, 800, 2000, 2500, 3000, 5000},
     chi_1 : {50, 80, 100}, chi_2 : {0, 20, 50}, s : {100, 200, 500}]

\* the parameter vectors the shape functions are called on
ShapeProbe ==
    [F0 : {100, 200}, P_break : {500, 1000},
     beta_1 : {-100, 100}, beta_2 : {-100, 100},
     P_central : {500, 800, 2000, 3000},
     chi_1 : {60, 80}, chi_2 : {20, 40}, s : {125, 200}]

----------------------------------------------------------------------------
(* log_prior *)

\* np.log10(2*Pmin) <= np.log10(P_cent) - np.log10(s).  In the reals this is
\* 2*Pmin*s <= P_cent; the floats compare rounded logarithms, so where the
\* two sides are equal in the reals the rounding decides (rnd).
JointLo(P_cent, s, rnd) ==
    IF 2 * Pmin * s < P_cent THEN TRUE
    ELSE IF 2 * Pmin * s = P_cent THEN rnd
    ELSE FALSE

\* np.log10(0.5*Pmax) >= np.log10(P_cent) + np.log10(s)
JointHi(P_cent, s, rnd) ==
    IF 2 * P_cent * s < Pmax * 10000 THEN TRUE
    ELSE IF 2 * P_cent * s = Pmax * 10000 THEN rnd
    ELSE FALSE

log_prior(fparam, rnd) ==
    IF /\ 5 < fparam.F0 /\ fparam.F0 < 500
       /\ 200 < fparam.P_break /\ fparam.P_break < 2000
       /\ -200 < fparam.beta_1 /\ fparam.beta_1 < 500
       /\ -200 < fparam.beta_2 /\ fparam.beta_2 < 500
       /\ 400 < fparam.P_central /\ fparam.P_central < 5000
       /\ (100 - fparam.chi_1) < fparam.chi_1
       /\ 0 < fparam.chi_1 /\ fparam.chi_1 < 100
       /\ 0 < fparam.chi_2 /\ fparam.chi_2 < 50
       /\ 100 < fparam.s /\ fparam.s < 500
       /\ JointLo(fparam.P_central, fparam.s, rnd)
       /\ JointHi(fparam.P_central, fparam.s, rnd)
    THEN "0.0"
    ELSE "-inf"

\* np.isfinite
IsFinite(lp) == lp # "-inf" /\ lp # "nan"

----------------------------------------------------------------------------
(* g, function_Cn, df.  g reads the module global Rsplit when it is called. *)

\* occ_SEMN = (P/P_break)**np.where(P<P_break, beta_1, beta_2), thousandths
occ_SEMN(P, fparam) ==
    NpPower(P, fparam.P_break,
            (IF P < fparam.P_break THEN fparam.beta_1 ELSE fparam.beta_2) \div 100)

\* sx = 0.5 + 0.5*np.tanh((np.log10(P)-np.log10(P_central))/np.log10(s)), thousandths
sx(P, fparam) ==
    500 + NpTanh(((NpLog10(P) - NpLog10(fparam.P_central)) * 1000)
                    \div NpLog10(fparam.s)) \div 2

\* X = chi_1*(1-sx) + sx*(chi_2), thousandths
MixX(P, fparam) ==
    LET s1 == sx(P, fparam)
    IN  (fparam.chi_1 * (1000 - s1) + s1 * fparam.chi_2) \div 100

\* g2 = X*(c-b) / ((b-a) + X*(c-b) - X*(b-a)), thousandths, with
\* a,b,c = np.log(Rmin), np.log(Rsplit), np.log(Rmax)
g2(P, fparam) ==
    LET a == NpLog(Rmin)
        b == NpLog(Rsplit)
        c == NpLog(Rmax)
        X == MixX(P, fparam)
    IN  FDiv(1000 * X * (c - b), 1000 * (b - a) + X * (c - b) - X * (b - a))

\* the complement taken with the wrong sign: np.where(R<Rsplit, g2, g2-1)
g_split_neg(P, R, fparam) ==
    IF R < Rsplit THEN g2(P, fparam) ELSE g2(P, fparam) - 1000

\* g_split = np.where(R<Rsplit, g2, 1-g2)
g_split(P, R, fparam) ==
    IF R < Rsplit THEN g2(P, fparam) ELSE 1000 - g2(P, fparam)

\* g = g_split/R * occ_SEMN, hundredths
g(P, R, fparam) ==
    (((g_split(P, R, fparam) * occ_SEMN(P, fparam)) \div 1000) * 10) \div R

\* the cell area left without its radius side: g(intP,intR,fparam) * dP
gdP(fparam) ==
    [c \in Cells |-> g(intGrid.P[c], intGrid.R[c], fparam) * intGrid.dP[c]]

\* g(intP,intR,fparam) * dP * dR, cell by cell
gdPdR(fparam) ==
    [c \in Cells |->
        g(intGrid.P[c], intGrid.R[c], fparam) * intGrid.dP[c] * intGrid.dR[c]]

\* Cn = 1 / np.sum(g(intP,intR,fparam) * dP * dR)
function_Cn(fparam) == Rat(1, ISum(gdPdR(fparam), Cells))

\* df = F0 * Cn * g
df(P, R, fparam) ==
    RMul(RMul(Rat(fparam.F0, 100), function_Cn(fparam)), Rat(g(P, R, fparam), 1))

----------------------------------------------------------------------------
(* Direct calls of the model functions on a parameter vector *)

NoOut == [fn |-> "none"]

\* log_prior(theta)
CallLogPrior(rnd) ==
    /\ out' = [fn |-> "log_prior", rnd |-> rnd, lp |-> log_prior(theta, rnd)]
    /\ UNCHANGED <<Rsplit, theta, driverVars>>

\* g, function_Cn and df on the integration grid, for a theta the prior accepts
CallShape(rnd) ==
    /\ log_prior(theta, rnd) = "0.0"
    /\ out' = [fn |-> "shape", Rsplit |-> Rsplit,
               g2 |-> [c \in Cells |-> g2(intGrid.P[c], theta)],
               g |-> [c \in Cells |-> g(intGrid.P[c], intGrid.R[c], theta)],
               Cn |-> function_Cn(theta),
               sumCnG |-> LET Cn == function_Cn(theta)
                          IN  RSum([c \in Cells |->
                                      RMul(RMul(Cn, Rat(g(intGrid.P[c], intGrid.R[c], theta), 1)),
                                           Rat(intGrid.dP[c] * intGrid.dR[c], 1))],
                                   Cells),
               sumDf |-> RSum([c \in Cells |->
                                 RMul(df(intGrid.P[c], intGrid.R[c], theta),
                                      Rat(intGrid.dP[c] * intGrid.dR[c], 1))],
                              Cells)]
    /\ UNCHANGED <<Rsplit, theta, driverVars>>

\* Rsplit = ScaledRadius(M=Mavg) for a row of the mass-bin table
AssignRsplit(row) ==
    /\ Rsplit' = ScaledRadius(200, Mavg(t[row]))
    /\ out' = NoOut
    /\ UNCHANGED <<theta, driverVars>>

----------------------------------------------------------------------------
(* The driver cell: data it reads *)

\* draws per bin and steps per chain (100 and 10000 in the notebook)
num_draws == 2
nstep == 2

\* walkers
nwalk == 16

\* initial guesses, one row per mass bin (thousandths)
guess == << <<680, 9223, 639, -868, 11419, 847, 395, 2496>>,
            <<952, 13224, 220, -1121, 7555, 756, 342, 1505>> >>

\* what the catalog of a bin can hold: the reliabilities of its rows in the P,R range
CatalogSet == { <<>>, <<0>>, <<50>>, <<0, 100>>, <<50, 50>> }

\* the longest catalog
MaxRows == CHOOSE n \in {Len(c) : c \in CatalogSet} : \A c \in CatalogSet : Len(c) <= n

\* values of the uniform numbers the generator yields
UVals == {25, 75}

StreamLen == MaxRows * num_draws

\* parameter vectors the sampler proposes
ProposalSet ==
    { InteriorPoint,
      [InteriorPoint EXCEPT !.F0 = 1000],
      [InteriorPoint EXCEPT !.P_central = 800] }

Bins == 1..Len(t)
Draws == 0..(num_draws - 1)

----------------------------------------------------------------------------
(* np.random *)

\* np.random.seed(42): the generator restarts its sequence
Seed(at) == 0

\* np.random.randn(nwalk, len(initial)): one number per walker and parameter
Randn(at, rows, cols) == at + rows * cols

\* the uniform number at a position of the seeded sequence (the numbers the
\* walker jitter of a freshly seeded generator consumes come first)
Uniform(at) == stream[((at - nwalk * Len(guess[1])) % StreamLen) + 1]

\* np.random.choice with the probabilities the wrong way round, p=[1-rel, rel]
ChoiceSwapped(at, rel) == [d \in 1..num_draws |-> Uniform(at + d - 1) < 100 - rel]

\* np.random.choice([True,False], size=num_draws, p=[rel, 1-rel]): draw d is
\* True when its uniform number falls below cdf[0] = rel (searchsorted, side='right')
Choice(at, rel) == [d \in 1..num_draws |-> Uniform(at + d - 1) < rel]

----------------------------------------------------------------------------
(* File names *)

\* str(n)
RECURSIVE Str(_)
Str(n) == IF n < 10 THEN <<n>> ELSE Append(Str(n \div 10), n % 10)

\* s.zfill(w)
RECURSIVE ZFill(_, _)
ZFill(s, w) == IF Len(s) >= w THEN s ELSE ZFill(<<0>> \o s, w)

\* thisString = str(row['Lo']) + '-' + str(row['Hi'])
thisString(row) == <<t[row].Lo, t[row].Hi>>

\* a chain file name that leaves the draw index out
this_draw_filename_nodraw(row, ts, d) == <<"Fit", thisString(row), ts>>

\* filename + '_draw_' + str(draw).zfill(3) + ".h5"
this_draw_filename(row, ts, d) == <<"Fit", thisString(row), ts, ZFill(Str(d), 3)>>

TrackerName(row, ts) == <<"tracker", thisString(row), ts>>
UnusedName(row, ts) == <<"unused_flag", thisString(row), ts>>

----------------------------------------------------------------------------
(* lnL and log_posterior: which functions a call evaluates, and what it returns *)

\* g(...)
gCalls == <<"g">>

\* function_Cn: one g on the grid
function_CnCalls == <<"function_Cn">> \o gCalls

\* function_Nexp: function_Cn, then g for integrand and g for integral
function_NexpCalls == <<"function_Nexp">> \o function_CnCalls \o gCalls \o gCalls

\* lnL: function_Npl, function_Nexp, function_Cn, g on the data
lnLCalls ==
    <<"lnL", "function_Npl">> \o function_NexpCalls \o function_CnCalls \o gCalls

\* the value of lnL(fparam, P, R) for a sample of Npl planets
lnL(fparam, sample) == [fn |-> "lnL", fparam |-> fparam, Npl |-> Len(sample)]

\* a log_posterior that evaluates the likelihood before it looks at the prior
log_posterior_eager(fparam, sample, rnd) ==
    LET lp == log_prior(fparam, rnd)
    IN  [fparam |-> fparam, rnd |-> rnd, calls |-> <<"log_prior">> \o lnLCalls,
         value |-> IF ~IsFinite(lp) THEN <<"-inf">> ELSE <<lp, lnL(fparam, sample)>>]

log_posterior(fparam, sample, rnd) ==
    LET lp == log_prior(fparam, rnd)
    IN  IF ~IsFinite(lp)
        THEN [fparam |-> fparam, rnd |-> rnd, calls |-> <<"log_prior">>,
              value |-> <<"-inf">>]
        ELSE [fparam |-> fparam, rnd |-> rnd, calls |-> <<"log_prior">> \o lnLCalls,
              value |-> <<lp, lnL(fparam, sample)>>]

----------------------------------------------------------------------------
(* The driver cell: its steps *)

NoEval == [calls |-> <<>>]

\* OneRunCompletenessGrid = SummedEtaInterp(x,y): the completeness of the stars of
\* the row's mass range, times their number, resampled on the grid axes x, y
SummedEtaInterp(row) == [Mass |-> <<t[row].Lo, t[row].Hi>>, x |-> gridX, y |-> gridY]

\* no completeness grid yet
NoGrid == [Mass |-> <<>>, x |-> <<>>, y |-> <<>>]

\* pos = initial + 1e-4 * np.random.randn(nwalk, len(initial)): the guess of the
\* row, the generator position the noise is read from, the shape of the array,
\* and the number of sampler steps the positions have been moved by
Jitter(row, seeded) ==
    [initial |-> guess[row], noise |-> seeded,
     shape |-> <<nwalk, Len(guess[row])>>, moved |-> 0]

\* no walker positions yet
NoPos == [initial |-> <<>>, noise |-> 0, shape |-> <<0, 0>>, moved |-> 0]

\* the positions a chain goes on from where the last chain of the cell stopped
initial_state_resumed(p, last) == IF last.moved > 0 THEN last ELSE p

\* sampler.run_mcmc(pos, nstep): the chain starts from its first argument, and
\* not from where any earlier sampler left its walkers
initial_state(p, last) == p

\* one sampler step: every walker is moved once
Move(w) == [w EXCEPT !.moved = @ + 1]

\* the draw loop inside which the per-bin setup is repeated
NextDrawSetup(d) == IF d + 1 < num_draws THEN "bin_setup" ELSE "tracker_write"

\* for draw in range(num_draws): where the cell goes after draw d
NextDraw(d) == IF d + 1 < num_draws THEN "draw_begin" ELSE "tracker_write"

\* an exception raised in the cell is caught nowhere: the cell ends there, and
\* the statement it would otherwise have gone on to (resume) is never reached
Raise(e, resume) == pc' = "aborted" /\ err' = e

\* tracker = [] and unused = [] at the top of each bin
ResetList(old) == <<>>
ResetUnused(old) == {}

\* np.any in place of np.all: rows left out of at least one draw
NeverUsedAny(ua) == {i \in 1..Len(ua) : \E d \in 1..num_draws : ~ua[i][d]}

\* np.where([np.all(use_array[i,:]==False) for i in range(len(sample_reliability))])[0]
NeverUsed(ua) == {i \in 1..Len(ua) : \A d \in 1..num_draws : ~ua[i][d]}

\* isnonzeroReliability = (sample_reliability != 0): the rows kept, in order
isnonzeroReliability(cat) ==
    SelectSeq([i \in 1..Len(cat) |-> i], LAMBDA i : cat[i] # 0)

\* Kepler_P[use_array[:,draw]]: the rows of the draw, as indices into catalog
Subsample(d) ==
    LET pick == SelectSeq([i \in 1..Len(sample_reliability) |-> i],
                          LAMBDA i : use_array[i][d + 1])
    IN  [k \in 1..Len(pick) |-> rowOf[pick[k]]]

\* with Pool() as pool: one more live pool on entry, one less on exit
PoolEnter(n) == n + 1
\* a pool that is never torn down
PoolKeep(n) == n
PoolExit(n) == n - 1

\* sampler.run_mcmc(pos, nstep): the number of steps the chain is advanced
ChainLength == nstep

\* From "for this_row in range(len(t))" to the print of the chain file name:
\* walker initialisation, bin data, Rsplit, resampling, unused bookkeeping.
BinSetup(cat, dt, ok) ==
    /\ pc = "bin_setup"
    /\ LET seeded == Seed(rngPos)
           jittered == Randn(seeded, nwalk, Len(guess[this_row]))
           keep == isnonzeroReliability(cat)
           rel == [i \in 1..Len(keep) |-> cat[keep[i]]]
           ua == [i \in 1..Len(rel) |-> Choice(jittered + (i - 1) * num_draws, rel[i])]
           never == NeverUsed(ua)
           un == IF never # {} THEN never ELSE ResetUnused(unused)
           now == clock + dt
       IN  /\ rngPos' = jittered + Len(rel) * num_draws
           /\ catalog' = cat
           /\ sample_reliability' = rel
           /\ rowOf' = keep
           /\ use_array' = ua
           /\ tracker' = ResetList(tracker)
           /\ unused' = un
           /\ pos' = Jitter(this_row, seeded)
           /\ OneRunCompletenessGrid' = SummedEtaInterp(this_row)
           /\ Rsplit' = ScaledRadius(200, Mavg(t[this_row]))
           /\ clock' = now
           /\ timestr' = now
           /\ resampled' = (this_row :> [from |-> jittered, rel |-> rel, mask |-> ua,
                                          printed |-> [i \in un |-> rel[i]]])
                               @@ resampled
           /\ IF un # {} /\ ~ok
              THEN /\ Raise("OSError: np.savetxt unused_flag", "draw_begin")
                   /\ UNCHANGED otherFiles
              ELSE /\ pc' = "draw_begin"
                   /\ err' = err
                   /\ otherFiles' =
                        IF un # {}
                        THEN (UnusedName(this_row, now) :> un) @@ otherFiles
                        ELSE otherFiles
    /\ draw' = 0
    /\ UNCHANGED <<intGrid, walkers,
                   theta, out, this_row, stream, chainFiles, runs, pools, stepsDone,
                   lastEval>>

\* Top of the draw loop body: the draw's rows, the tracker entry, the backend.
DrawBegin(ok) ==
    /\ pc = "draw_begin"
    /\ IF Len(sample_reliability) = 0
       THEN \* use_array is np.array([]), one-dimensional: use_array[:,draw] raises
            /\ Raise("IndexError: use_array[:,draw]", "pool_enter")
            /\ UNCHANGED <<tracker, chainFiles>>
       ELSE /\ tracker' = Append(tracker, <<draw, Len(Subsample(draw))>>)
            /\ IF ok
               THEN /\ chainFiles' =
                        (this_draw_filename(this_row, timestr, draw) :> 0) @@ chainFiles
                    /\ pc' = "pool_enter"
                    /\ err' = err
               ELSE /\ Raise("OSError: backend.reset", "pool_enter")
                    /\ UNCHANGED chainFiles
    /\ UNCHANGED <<intGrid, OneRunCompletenessGrid, pos, walkers,
                   Rsplit, theta, out, this_row, draw, rngPos, stream, catalog,
                   sample_reliability, rowOf, use_array, unused, timestr, clock,
                   otherFiles, runs, pools, stepsDone, lastEval, resampled>>

\* with Pool() as pool: the sampler is built on the draw's rows and run_mcmc starts
StartChain ==
    /\ pc = "pool_enter"
    /\ pools' = PoolEnter(pools)
    /\ runs' = [runs EXCEPT ![<<this_row, draw>>] = Append(@, Subsample(draw))]
    /\ stepsDone' = 0
    /\ walkers' = [start |-> initial_state(pos, walkers.now),
                   now |-> initial_state(pos, walkers.now)]
    /\ pc' = "run_mcmc"
    /\ UNCHANGED <<intGrid, OneRunCompletenessGrid, pos,
                   Rsplit, theta, out, this_row, draw, rngPos, stream, catalog,
                   sample_reliability, rowOf, use_array, unused, tracker, timestr,
                   clock, chainFiles, otherFiles, lastEval, err, resampled>>

\* one call of log_posterior made by the sampler on a proposed position
PosteriorCall(fparam, rnd) ==
    /\ pc = "run_mcmc"
    /\ stepsDone < ChainLength
    /\ lastEval' = log_posterior(fparam, Subsample(draw), rnd)
    /\ UNCHANGED <<intGrid, OneRunCompletenessGrid, pos, walkers,
                   Rsplit, theta, out, pc, this_row, draw, rngPos, stream, catalog,
                   sample_reliability, rowOf, use_array, unused, tracker, timestr,
                   clock, chainFiles, otherFiles, runs, pools, stepsDone, err,
                   resampled>>

\* the end of one sampler step: the step is saved to the backend
SaveStep(ok) ==
    /\ pc = "run_mcmc"
    /\ stepsDone < ChainLength
    /\ IF ok
       THEN /\ chainFiles' =
                [chainFiles EXCEPT ![this_draw_filename(this_row, timestr, draw)] = @ + 1]
            /\ stepsDone' = stepsDone + 1
            /\ walkers' = [walkers EXCEPT !.now = Move(@)]
            /\ UNCHANGED <<pc, err, pools>>
       ELSE /\ pools' = PoolExit(pools)
            /\ Raise("OSError: run_mcmc", "run_mcmc")
            /\ UNCHANGED <<chainFiles, stepsDone, walkers>>
    /\ UNCHANGED <<intGrid, OneRunCompletenessGrid, pos,
                   Rsplit, theta, out, this_row, draw, rngPos, stream, catalog,
                   sample_reliability, rowOf, use_array, unused, tracker, timestr,
                   clock, otherFiles, runs, lastEval, resampled>>

\* run_mcmc returns, the with block ends, the draw loop goes on
EndChain ==
    /\ pc = "run_mcmc"
    /\ stepsDone = ChainLength
    /\ pools' = PoolExit(pools)
    /\ draw' = draw + 1
    /\ pc' = NextDraw(draw)
    /\ UNCHANGED <<intGrid, OneRunCompletenessGrid, pos, walkers,
                   Rsplit, theta, out, this_row, rngPos, stream, catalog,
                   sample_reliability, rowOf, use_array, unused, tracker, timestr,
                   clock, chainFiles, otherFiles, runs, stepsDone, lastEval, err,
                   resampled>>

\* np.savetxt of the tracker after the draw loop, then the next bin
TrackerWrite(ok) ==
    /\ pc = "tracker_write"
    /\ IF ok
       THEN /\ otherFiles' = (TrackerName(this_row, timestr) :> tracker) @@ otherFiles
            /\ this_row' = this_row + 1
            /\ pc' = IF this_row < Len(t) THEN "bin_setup" ELSE "done"
            /\ err' = err
       ELSE /\ Raise("OSError: np.savetxt tracker", "bin_setup")
            /\ UNCHANGED <<otherFiles, this_row>>
    /\ UNCHANGED <<intGrid, OneRunCompletenessGrid, pos, walkers,
                   Rsplit, theta, out, draw, rngPos, stream, catalog, sample_reliability,
                   rowOf, use_array, unused, tracker, timestr, clock, chainFiles,
                   runs, pools, stepsDone, lastEval, resampled>>

----------------------------------------------------------------------------
(* Specifications *)

DriverStart(st) ==
    /\ pc = "bin_setup"
    /\ this_row = 1
    /\ draw = 0
    /\ rngPos = 0
    /\ stream = st
    /\ catalog = <<>>
    /\ sample_reliability = <<>>
    /\ rowOf = <<>>
    /\ use_array = <<>>
    /\ unused = {}
    /\ tracker = <<>>
    /\ timestr = 0
    /\ clock = 0
    /\ chainFiles = <<>>
    /\ otherFiles = <<>>
    /\ runs = [k \in Bins \X Draws |-> <<>>]
    /\ pools = 0
    /\ stepsDone = 0
    /\ lastEval = NoEval
    /\ err = "none"
    /\ resampled = <<>>
    /\ intGrid = log_grid
    /\ OneRunCompletenessGrid = NoGrid
    /\ pos = NoPos
    /\ walkers = [start |-> NoPos, now |-> NoPos]

\* The driver cell, run after the cells above it
Init ==
    /\ Rsplit = RsplitDefault
    /\ theta = InteriorPoint
    /\ out = NoOut
    /\ \E st \in [1..StreamLen -> UVals] : DriverStart(st)

Next ==
    \/ \E cat \in CatalogSet, dt \in 0..1, ok \in BOOLEAN : BinSetup(cat, dt, ok)
    \/ \E ok \in BOOLEAN : DrawBegin(ok)
    \/ StartChain
    \/ \E fparam \in ProposalSet, rnd \in BOOLEAN : PosteriorCall(fparam, rnd)
    \/ \E ok \in BOOLEAN : SaveStep(ok)
    \/ EndChain
    \/ \E ok \in BOOLEAN : TrackerWrite(ok)

Spec == Init /\ [][Next]_vars

\* log_prior called on a parameter vector
InitPrior ==
    /\ Rsplit = RsplitDefault
    /\ theta \in PriorProbe
    /\ out = NoOut
    /\ DriverStart([i \in 1..StreamLen |-> 25])

NextPrior == \E rnd \in BOOLEAN : CallLogPrior(rnd)

SpecPrior == InitPrior /\ [][NextPrior]_vars

\* g, function_Cn and df called on a parameter vector, between assignments of Rsplit
InitShape ==
    /\ Rsplit = RsplitDefault
    /\ theta \in ShapeProbe
    /\ out = NoOut
    /\ DriverStart([i \in 1..StreamLen |-> 25])

NextShape ==
    \/ \E rnd \in BOOLEAN : CallShape(rnd)
    \/ \E row \in Bins : AssignRsplit(row)

SpecShape == InitShape /\ [][NextShape]_vars

----------------------------------------------------------------------------
(* Properties *)

DrawStages == {"draw_begin", "pool_enter", "run_mcmc", "tracker_write"}

\* C1: log_posterior evaluates log_prior first; when the prior is not finite
\* it returns -inf and evaluates none of lnL, function_Npl, function_Nexp,
\* function_Cn, g; otherwise it returns log_prior + lnL.  So every evaluation
\* the sampler makes reaches g only with a theta the prior accepts.
C1_PriorGuardsLikelihood ==
    lastEval # NoEval =>
        LET lp == log_prior(lastEval.fparam, lastEval.rnd)
        IN  /\ lastEval.calls[1] = "log_prior"
            /\ IF IsFinite(lp)
               THEN /\ Len(lastEval.value) = 2
                    /\ lastEval.value[1] = lp
                    /\ lastEval.value[2].fn = "lnL"
                    /\ lastEval.value[2].fparam = lastEval.fparam
               ELSE /\ lastEval.value = <<"-inf">>
                    /\ \A i \in 1..Len(lastEval.calls) :
                          lastEval.calls[i] \notin
                              {"lnL", "function_Npl", "function_Nexp", "function_Cn", "g"}

\* the sampler has proposed a theta the prior rejects, and log_posterior returned
C1_Witness ==
    /\ lastEval # NoEval
    /\ lastEval.fparam.F0 = 1000
    /\ lastEval.value = <<"-inf">>

\* C2: log_prior returns 0 exactly when theta satisfies 0.05 < F0 < 5,
\* 2 < P_break < 20, -2 < beta_1 < 5, -2 < beta_2 < 5, 4 < P_central < 50,
\* 0 < chi_1 < 1 and chi_1 > 1 - chi_1, 0 < chi_2 < 0.5, 1 < s < 5,
\* P_central / s >= 2*Pmin and P_central * s <= 0.5*Pmax (both non-strict),
\* and -inf for every other theta.
C2_PriorExactlyOnBounds ==
    out.fn = "log_prior" =>
        (out.lp = "0.0" <=>
            /\ 5 < theta.F0 /\ theta.F0 < 500
            /\ 200 < theta.P_break /\ theta.P_break < 2000
            /\ -200 < theta.beta_1 /\ theta.beta_1 < 500
            /\ -200 < theta.beta_2 /\ theta.beta_2 < 500
            /\ 400 < theta.P_central /\ theta.P_central < 5000
            /\ 0 < theta.chi_1 /\ theta.chi_1 < 100
            /\ theta.chi_1 > 100 - theta.chi_1
            /\ 0 < theta.chi_2 /\ theta.chi_2 < 50
            /\ 100 < theta.s /\ theta.s < 500
            /\ theta.P_central >= 2 * Pmin * theta.s
            /\ 2 * theta.P_central * theta.s <= Pmax * 10000)

\* C3: a failure to write the chain output of a draw (backend reset, or a
\* save during run_mcmc) is fatal for that draw only: when the driver has
\* come to rest after such a failure, every draw of every mass bin has been
\* given to the sampler and every bin's tracker file is written.
C3_LaterDrawsStillRun ==
    (/\ err \in {"OSError: backend.reset", "OSError: run_mcmc"}
     /\ pc \in {"aborted", "done"}) =>
        /\ \A k \in Bins \X Draws : Len(runs[k]) >= 1 \/ k = <<this_row, draw>>
        /\ \A b \in Bins : \E ts \in 0..clock : TrackerName(b, ts) \in DOMAIN otherFiles

\* C4: when a run over the mass bins completes without error, the sampler
\* has been invoked exactly once for every (bin, draw), whatever the size of
\* the draw's sample; there are exactly Len(t) * num_draws chain files, one
\* per (bin label, timestamp, zero-padded draw index); and each bin has
\* exactly one tracker file, holding num_draws entries [draw, sample size]
\* in draw order.
C4_OneChainPerBinAndDraw ==
    pc = "done" =>
        /\ \A k \in Bins \X Draws : Len(runs[k]) = 1
        /\ Cardinality(DOMAIN chainFiles) = Len(t) * num_draws
        /\ \A b \in Bins, d \in Draws :
              \E ts \in 0..clock : this_draw_filename(b, ts, d) \in DOMAIN chainFiles
        /\ Cardinality({n \in DOMAIN otherFiles : n[1] = "tracker"}) = Len(t)
        /\ \A b \in Bins :
              \E ts \in 0..clock :
                 /\ TrackerName(b, ts) \in DOMAIN otherFiles
                 /\ otherFiles[TrackerName(b, ts)] =
                        [i \in 1..num_draws |-> <<i - 1, Len(runs[<<b, i - 1>>][1])>>]

\* a completed run in which the sampler was given a draw of zero planets
C4_Witness ==
    /\ pc = "done"
    /\ \E k \in Bins \X Draws : runs[k] = << <<>> >>

\* C5: the bin loop and the draw loop are sequential: while the cell runs,
\* every chain file other than the current draw's holds all nstep steps, the
\* sampler has been invoked for no draw after the current one, every earlier
\* bin has its draws finished and its tracker written, and at most one pool
\* exists, only while the current draw's chain is being advanced.
C5_SequentialLoops ==
    /\ pools \in {0, 1}
    /\ pools = 1 <=> pc = "run_mcmc"
    /\ pc # "aborted" =>
          /\ \A n \in DOMAIN chainFiles :
                \/ chainFiles[n] = nstep
                \/ /\ n = this_draw_filename(this_row, timestr, draw)
                   /\ pc \in {"pool_enter", "run_mcmc"}
          /\ \A k \in Bins \X Draws :
                /\ Len(runs[k]) >= 1 =>
                      k[1] < this_row \/ (k[1] = this_row /\ k[2] <= draw /\ pc # "bin_setup")
                /\ k[1] < this_row => Len(runs[k]) = 1
          /\ \A b \in Bins :
                b < this_row =>
                   \E ts \in 0..clock : TrackerName(b, ts) \in DOMAIN otherFiles

\* the second draw of the second bin is being advanced, with its pool
C5_Witness ==
    /\ pools = 1
    /\ this_row = 2
    /\ draw = 1
    /\ stepsDone = 1

\* C6: the seed is fixed for the walker jitter, but the Bernoulli resampling
\* is not seeded identically: the mask of a bin is not a function of the
\* fixed seed, so two bins with the same list of reliabilities (one of them
\* strictly between 0 and 1) do not draw their masks from the same position
\* of the seeded sequence, which would force the two masks to be equal.
C6_ResamplingNotFixedBySeed ==
    \A b1 \in DOMAIN resampled, b2 \in DOMAIN resampled :
        (/\ b1 # b2
         /\ resampled[b1].rel = resampled[b2].rel
         /\ \E i \in DOMAIN resampled[b1].rel :
               0 < resampled[b1].rel[i] /\ resampled[b1].rel[i] < 100)
        => resampled[b1].from # resampled[b2].from

\* C7: each draw is a subset of the bin's catalog rows; a row of reliability
\* 1.0 is in every one of the num_draws draws, a row of reliability 0.0 is in
\* none; and the sample the sampler is given for a draw is that subset.
C7_CertainRowsAlwaysNeverDrawn ==
    pc \in DrawStages =>
        \A d \in Draws :
            /\ Range(Subsample(d)) \subseteq 1..Len(catalog)
            /\ \A i \in 1..Len(catalog) :
                  /\ catalog[i] = 100 => i \in Range(Subsample(d))
                  /\ catalog[i] = 0 => i \notin Range(Subsample(d))
            /\ Len(runs[<<this_row, d>>]) >= 1 =>
                  runs[<<this_row, d>>][1] = Subsample(d)

\* the last draw of a bin with a reliability-0 row and a reliability-1 row is running
C7_Witness ==
    /\ pc = "run_mcmc"
    /\ draw = num_draws - 1
    /\ catalog = <<0, 100>>
    /\ runs[<<this_row, draw>>] = << <<2>> >>

\* C8 as claimed: when the draws of a bin are done, every catalog row that
\* was left out of every one of them is in the bin's unused list.
C8_EveryExcludedRowRecorded ==
    pc = "tracker_write" =>
        \A i \in 1..Len(catalog) :
            (\A d \in Draws : i \notin Range(Subsample(d))) =>
                \E j \in unused : rowOf[j] = i

\* C8 amended: once a bin is past its resampling, its unused list holds
\* exactly the rows of non-zero reliability that are left out of every draw
\* (rows of reliability 0 are dropped before the resampling and are not
\* recorded), with their reliabilities printed; nothing in it comes from an
\* earlier bin; and the bin's unused_flag file exists exactly when the list
\* is non-empty, holding the list.
C8_UnusedIsNeverDrawnNonzero ==
    pc \in DrawStages =>
        /\ unused = {j \in 1..Len(sample_reliability) :
                        \A d \in Draws : ~use_array[j][d + 1]}
        /\ \A i \in 1..Len(catalog) :
              IF catalog[i] = 0
              THEN ~ \E j \in unused : rowOf[j] = i
              ELSE (\E j \in unused : rowOf[j] = i)
                      <=> (\A d \in Draws : i \notin Range(Subsample(d)))
        /\ DOMAIN resampled[this_row].printed = unused
        /\ \A j \in unused : resampled[this_row].printed[j] = catalog[rowOf[j]]
        /\ UnusedName(this_row, timestr) \in DOMAIN otherFiles <=> unused # {}
        /\ unused # {} => otherFiles[UnusedName(this_row, timestr)] = unused

\* the draws of the second bin are done: it has a reliability-0 row, not
\* recorded, and no unused row, after a first bin that wrote an unused_flag file
C8_Witness ==
    /\ pc = "tracker_write"
    /\ this_row = 2
    /\ catalog = <<0, 100>>
    /\ unused = {}
    /\ \E n \in DOMAIN otherFiles : n[1] = "unused_flag"

\* C9: for a theta the prior accepts and the Rsplit in force, g >= 0 at
\* every point of the integration grid, and the split fraction g2 and its
\* complement 1 - g2 are in [0, 1].
C9_ShapeNonNegative ==
    out.fn = "shape" =>
        \A c \in Cells :
            /\ out.g[c] >= 0
            /\ 0 <= out.g2[c] /\ out.g2[c] <= 1000
            /\ 0 <= 1000 - out.g2[c] /\ 1000 - out.g2[c] <= 1000

\* g evaluated with the Rsplit of the second mass bin, positive on both sides of it
C9_Witness ==
    /\ out.fn = "shape"
    /\ Rsplit = ScaledRadius(200, Mavg(t[2]))
    /\ out.Rsplit = Rsplit
    /\ \E c \in Cells : intR[c] < Rsplit /\ out.g[c] > 0
    /\ \E c \in Cells : intR[c] >= Rsplit /\ out.g[c] > 0

\* C10: for a theta the prior accepts, the grid sum of Cn * g * dP * dR is
\* 1 and the grid sum of df * dP * dR is F0, whatever Rsplit is in force.
C10_NormalisedToF0 ==
    out.fn = "shape" =>
        /\ out.sumCnG = Rat(1, 1)
        /\ out.sumDf = Rat(theta.F0, 100)

\* F0 = 2 under the Rsplit of a mass bin: df sums to 2
C10_Witness ==
    /\ out.fn = "shape"
    /\ out.Rsplit # RsplitDefault
    /\ theta.F0 = 200
    /\ out.sumDf = Rat(2, 1)

\* the data of a bin: completeness grid, Rsplit, the filtered catalog and its reliabilities
BinData == <<OneRunCompletenessGrid, Rsplit, catalog, sample_reliability, rowOf>>

\* C11: the completeness grid, Rsplit and the filtered catalog with its
\* reliabilities are assigned once per mass bin, before the bin's first draw
\* (they change only in the bin's setup, when the sampler has been given no
\* draw of the bin), and no draw, chain step or posterior evaluation changes
\* them; the integration grid intP, intR, dP, dR never changes.
C11_BinDataFixedDuringFit ==
    [][/\ intGrid' = intGrid
       /\ pc \in DrawStages => BinData' = BinData
       /\ BinData' # BinData =>
             /\ pc = "bin_setup"
             /\ \A d \in Draws : runs[<<this_row, d>>] = <<>>]_vars

\* the last draw of the second bin has made a chain step and a posterior
\* evaluation, under the completeness grid and the Rsplit of that bin
C11_Witness ==
    /\ pc = "run_mcmc"
    /\ this_row = Len(t)
    /\ draw = num_draws - 1
    /\ stepsDone >= 1
    /\ lastEval # NoEval
    /\ OneRunCompletenessGrid = SummedEtaInterp(this_row)
    /\ Rsplit = ScaledRadius(200, Mavg(t[this_row]))
    /\ intGrid = log_grid

\* C12: walker state does not leak between draws: while a bin is fitted, pos
\* is the jittered initial guess of the bin, one row per walker, nwalk x 8,
\* not moved by any step; every chain starts from pos, and never from where
\* the chain of an earlier draw or bin ended; the walkers of a running chain
\* are stepsDone steps from pos, and those of a finished chain exactly nstep.
C12_EveryChainStartsFromPos ==
    pc \in DrawStages =>
        /\ pos.initial = guess[this_row]
        /\ pos.shape = <<nwalk, 8>>
        /\ pos.moved = 0
        /\ pc = "run_mcmc" =>
              /\ walkers.start = pos
              /\ walkers.now = [pos EXCEPT !.moved = stepsDone]
        /\ (pc # "run_mcmc" /\ draw > 0) =>
              /\ walkers.start = pos
              /\ walkers.now = [pos EXCEPT !.moved = nstep]

\* the first draw of the second bin starts, after the chains of the first bin
\* have left their walkers nstep steps away from that bin's start positions
C12_Witness ==
    /\ pc = "run_mcmc"
    /\ this_row = 2
    /\ draw = 0
    /\ stepsDone = 0
    /\ walkers.start = pos
    /\ walkers.now.moved = 0
    /\ \A d \in Draws : Len(runs[<<1, d>>]) = 1

====
